---- MODULE Spec2Model ----
(***************************************************************************)
(* Model of check_add_tag.py: for every configured AWS profile, for every  *)
(* entry of TAGGABLE_SERVICES, list the resources through the Resource     *)
(* Groups Tagging API and add to each resource the REQUIRED_TAGS keys it   *)
(* does not carry yet.                                                     *)
(*                                                                         *)
(* The remote side (the tagging API) is the environment: each call either  *)
(* answers or raises, chosen nondeterministically.  A tag map is a         *)
(* function from the keys that are present to their values.                *)
(***************************************************************************)
EXTENDS Integers, Sequences

\* ---------------------------------------------------------------- bounds
\* Longest profile list returned by get_aws_profiles.
MaxProfiles == 2
\* Number of entries of TAGGABLE_SERVICES that a profile pass walks.
NumServices == 2
\* Number of resources the account holds.
NumResources == 2

\* ------------------------------------------------------------- constants
\* REQUIRED_TAGS as the ordered items of the dict literal.
RequiredItems ==
    << [Key |-> "Environment", Value |-> "Production"],
       [Key |-> "Owner",       Value |-> "CloudEng"] >>

\* REQUIRED_TAGS as a mapping key -> value.
REQUIRED_TAGS == [Environment |-> "Production", Owner |-> "CloudEng"]

TAGGABLE_SERVICES ==
    << "ec2", "s3", "rds", "lambda", "dynamodb", "sns", "sqs", "elb",
       "autoscaling", "cloudwatch", "redshift", "cloudfront", "eks", "ecr",
       "kinesis" >>

\* The services a pass walks: the first NumServices entries, in order.
Services == SubSeq(TAGGABLE_SERVICES, 1, NumServices)

\* paginate(ResourcesPerPage=50)
ResourcesPerPage == 50

\* ------------------------------------------------------- the remote side
Resources == 1 .. NumResources

\* The service namespace of a resource's ARN.
ServiceOf(r) == Services[((r - 1) % NumServices) + 1]

\* Tag keys a resource may carry: the required ones and one unrelated key.
TagKeys == {"Environment", "Owner", "Name"}

\* Values a key may carry before the run: the required value or another one.
ValuesFor(k) ==
    IF k \in DOMAIN REQUIRED_TAGS THEN {REQUIRED_TAGS[k], "Legacy"}
                                  ELSE {"Legacy"}

EmptyMap == [k \in {} |-> "Legacy"]

\* The tag maps a resource may carry before the run: every map over the
\* required keys, and one map that also carries the unrelated key.
InitialTagMaps ==
    UNION { { m \in [K -> {"Production", "CloudEng", "Legacy"}] :
                \A k \in K : m[k] \in ValuesFor(k) } :
            K \in SUBSET DOMAIN REQUIRED_TAGS }
    \cup { [Environment |-> "Legacy", Name |-> "Legacy"] }

\* Order in which the API returns the tags of a resource.
KeyOrder == << "Environment", "Name", "Owner" >>

\* The "Tags" list of a ResourceTagMapping: [{"Key":..,"Value":..}, ...].
RECURSIVE TagListFrom(_, _)
TagListFrom(m, i) ==
    IF i > Len(KeyOrder) THEN << >>
    ELSE IF KeyOrder[i] \in DOMAIN m
         THEN << [Key |-> KeyOrder[i], Value |-> m[KeyOrder[i]]] >>
              \o TagListFrom(m, i + 1)
         ELSE TagListFrom(m, i + 1)

TagList(m) == TagListFrom(m, 1)

\* tag_resources on the remote side: the given keys are set to the given
\* values (a key that exists is overwritten), every other key is kept.
ApplyTags(old, written) ==
    [k \in DOMAIN old \cup DOMAIN written |->
        IF k \in DOMAIN written THEN written[k] ELSE old[k]]

\* ------------------------------------------------------ pure helpers
\* A list of {"Key","Value"} items folded into a dict, later items winning.
RECURSIVE DictOf(_)
DictOf(items) ==
    IF items = << >> THEN EmptyMap
    ELSE LET n    == Len(items)
             rest == DictOf(SubSeq(items, 1, n - 1))
         IN  [k \in DOMAIN rest \cup {items[n].Key} |->
                 IF k = items[n].Key THEN items[n].Value ELSE rest[k]]

\* Lines 37-42: existing_tags built from the get_resources response.
RECURSIVE ExistingTags(_)
ExistingTags(mappingList) ==
    IF mappingList = << >> THEN EmptyMap
    ELSE LET n    == Len(mappingList)
             rest == ExistingTags(SubSeq(mappingList, 1, n - 1))
         IN  ApplyTags(rest, DictOf(mappingList[n].Tags))

\* Variant: a key counts as missing also when its value differs.
MissingTags_ByValue(existing) ==
    SelectSeq(RequiredItems,
              LAMBDA t : \/ t.Key \notin DOMAIN existing
                         \/ existing[t.Key] # t.Value)

\* Variant: the filter on existing_tags is dropped.
MissingTags_NoFilter(existing) == RequiredItems

\* Variant: only the first missing item is kept.
MissingTags_FirstOnly(existing) ==
    LET m == SelectSeq(RequiredItems, LAMBDA t : t.Key \notin DOMAIN existing)
    IN  IF m = << >> THEN m ELSE << m[1] >>

\* Lines 45-49: the required items whose key is not in existing_tags.
MissingTags(existing) ==
    SelectSeq(RequiredItems, LAMBDA t : t.Key \notin DOMAIN existing)

\* Line 25: the listing cut into pages of ResourcesPerPage mappings.
RECURSIVE Paginate(_)
Paginate(list) ==
    IF list = << >> THEN << >>
    ELSE IF Len(list) <= ResourcesPerPage THEN << list >>
    ELSE << SubSeq(list, 1, ResourcesPerPage) >>
         \o Paginate(SubSeq(list, ResourcesPerPage + 1, Len(list)))

\* Lines 23-28: resources.extend(page.get("ResourceTagMappingList", [])).
RECURSIVE ExtendAll(_)
ExtendAll(pages) ==
    IF pages = << >> THEN << >>
    ELSE Head(pages) \o ExtendAll(Tail(pages))

\* ----------------------------------------------------------------- state
VARIABLES
    pc,            \* "start", "main", "service", "resource", "done"
    profiles,      \* the list returned by get_aws_profiles
    pi,            \* index of the profile of the main loop (line 88)
    si,            \* index of the service of the loop of line 68
    ri,            \* index of the resource of the loop of line 71
    resources,     \* the list returned by get_resources_with_tags
    exitStatus,    \* -1 while running, 0 on a normal end, 1 on a traceback
    tags,          \* remote side: the tag map of every resource
    tags0,         \* the tag maps before the run
    last,          \* the most recent check_and_add_tags call
    okWrites,      \* per resource, the tag_resources calls that were applied
    entered,       \* profiles process_aws_profile was entered for
    listedSvcs,    \* services listed so far in the current profile pass
    processed,     \* ARNs check_and_add_tags was called on in this listing
    profRaised,    \* the most recent process_aws_profile call raised
    listRaised     \* the most recent get_resources_with_tags call raised

fails == << profRaised, listRaised >>
hist  == << entered, listedSvcs, processed >>
vars  == << pc, profiles, pi, si, ri, resources, exitStatus, tags, tags0,
            last, okWrites, entered, listedSvcs, processed,
            profRaised, listRaised >>

NoCall == [arn |-> 0, read |-> "none", before |-> EmptyMap,
           writes |-> << >>, result |-> "none"]

\* The state before the first statement of the main block, the resources
\* carrying tag maps drawn from the given set.
InitWith(tagMaps) ==
    /\ pc = "start"
    /\ profiles = << >>
    /\ pi = 1
    /\ si = 1
    /\ ri = 1
    /\ resources = << >>
    /\ exitStatus = -1
    /\ tags \in [Resources -> tagMaps]
    /\ tags0 = tags
    /\ last = NoCall
    /\ okWrites = [r \in Resources |-> 0]
    /\ entered = << >>
    /\ listedSvcs = << >>
    /\ processed = << >>
    /\ profRaised = FALSE
    /\ listRaised = FALSE

Init == InitWith(InitialTagMaps)

\* ------------------------------------------------------------ main block
\* Lines 14-17, 83: profiles = get_aws_profiles().
GetAwsProfiles ==
    /\ pc = "start"
    /\ \E n \in 0 .. MaxProfiles : profiles' = [i \in 1 .. n |-> i]
    /\ pc' = "main"
    /\ UNCHANGED << pi, si, ri, exitStatus, resources, tags, tags0, last,
                    okWrites, hist, fails >>

\* Lines 85-86: no profile configured.
MainNoProfiles ==
    /\ pc = "main"
    /\ profiles = << >>
    /\ pc' = "done"
    /\ exitStatus' = 0
    /\ UNCHANGED << profiles, pi, si, ri, resources, tags, tags0, last,
                    okWrites, hist, fails >>

\* Lines 88-89: the loop over the profiles has run out.
MainEnd ==
    /\ pc = "main"
    /\ profiles # << >>
    /\ pi > Len(profiles)
    /\ pc' = "done"
    /\ exitStatus' = 0
    /\ UNCHANGED << profiles, pi, si, ri, resources, tags, tags0, last,
                    okWrites, hist, fails >>

\* ------------------------------------------------- process_aws_profile
\* Variant: no try/except in process_aws_profile; the exception leaves
\* the main loop and the interpreter exits with a traceback.
ExceptInProcessAwsProfile_Escapes ==
    /\ pc' = "done"
    /\ exitStatus' = 1
    /\ profRaised' = TRUE
    /\ UNCHANGED << pi, si, ri, listRaised >>

\* Lines 75-80: an exception of the profile pass is caught; the call
\* returns and the main loop goes on with the next profile.
ExceptInProcessAwsProfile ==
    /\ pc' = "main"
    /\ pi' = pi + 1
    /\ profRaised' = TRUE
    /\ UNCHANGED << si, ri, exitStatus, listRaised >>

\* Lines 64-66: the session and the tagging client are created.
SessionCreated ==
    /\ pc' = "service"
    /\ si' = 1
    /\ listedSvcs' = << >>
    /\ profRaised' = FALSE
    /\ UNCHANGED << pi, ri, exitStatus, listRaised >>

\* Lines 61-66 and 75-80: process_aws_profile(profile) is entered.
ProcessAwsProfile ==
    /\ pc = "main"
    /\ profiles # << >>
    /\ pi <= Len(profiles)
    /\ entered' = Append(entered, profiles[pi])
    /\ \/ SessionCreated
       \/ \E e \in {"ProfileNotFound", "NoCredentialsError", "Exception"} :
             /\ ExceptInProcessAwsProfile
             /\ UNCHANGED listedSvcs
    /\ UNCHANGED << profiles, resources, tags, tags0, last, okWrites,
                    processed >>

\* Line 68: the loop over TAGGABLE_SERVICES has run out.
EndServices ==
    /\ pc = "service"
    /\ si > Len(Services)
    /\ pc' = "main"
    /\ pi' = pi + 1
    /\ UNCHANGED << profiles, si, ri, exitStatus, resources, tags, tags0,
                    last, okWrites, hist, fails >>

\* --------------------------------------------- get_resources_with_tags
\* What get_resources answers without a filter: every resource of the
\* account.  Only "ResourceARN" of a mapping is read by the caller.
AccountListing == [r \in Resources |-> [ResourceARN |-> r]]

\* Lines 22-28: the paginator is walked and the pages are concatenated.
\* service_name takes no part in the request.
ListedResources(service_name) == ExtendAll(Paginate(AccountListing))

\* Variant: no try/except in get_resources_with_tags; the exception
\* reaches the handler of process_aws_profile.
ExceptInGetResources_Escapes ==
    /\ listRaised' = TRUE
    /\ profRaised' = TRUE
    /\ pc' = "main"
    /\ pi' = pi + 1
    /\ UNCHANGED << resources, si, ri, exitStatus >>

\* Lines 29-31: the exception is caught and [] is returned.
ExceptInGetResources ==
    /\ resources' = << >>
    /\ listRaised' = TRUE
    /\ pc' = "resource"
    /\ ri' = 1
    /\ UNCHANGED << pi, si, exitStatus, profRaised >>

\* Lines 69-70 and 19-31: resources = get_resources_with_tags(...).
GetResourcesWithTags ==
    /\ pc = "service"
    /\ si <= Len(Services)
    /\ listedSvcs' = Append(listedSvcs, Services[si])
    /\ processed' = << >>
    /\ \/ /\ resources' = ListedResources(Services[si])
          /\ listRaised' = FALSE
          /\ pc' = "resource"
          /\ ri' = 1
          /\ UNCHANGED << pi, si, exitStatus, profRaised >>
       \/ ExceptInGetResources
    /\ UNCHANGED << profiles, tags, tags0, last, okWrites, entered >>

\* Line 71: the loop over the listing has run out.
EndResources ==
    /\ pc = "resource"
    /\ ri > Len(resources)
    /\ pc' = "service"
    /\ si' = si + 1
    /\ UNCHANGED << profiles, pi, ri, exitStatus, resources, tags, tags0,
                    last, okWrites, hist, fails >>

\* -------------------------------------------------- check_and_add_tags
\* The call returns to the loop of line 71.
ReturnToResourceLoop ==
    /\ pc' = "resource"
    /\ ri' = ri + 1
    /\ UNCHANGED << pi, si, exitStatus >>

\* Variant: no try/except in check_and_add_tags; the exception reaches the
\* handler of process_aws_profile and the profile pass is abandoned.
ExceptInCheckAndAddTags_Escapes ==
    /\ profRaised' = TRUE
    /\ pc' = "main"
    /\ pi' = pi + 1
    /\ UNCHANGED << si, ri, exitStatus, listRaised >>

\* Lines 58-59: the exception is caught and the call returns.
ExceptInCheckAndAddTags ==
    /\ ReturnToResourceLoop
    /\ UNCHANGED << profRaised, listRaised >>

\* Line 38: what get_resources(ResourceARNList=[arn]) answers.
TagResponse(arn) == << [ResourceARN |-> arn, Tags |-> TagList(tags[arn])] >>

\* Variant: the Tags argument holds the first missing item only.
TagsArgument_FirstOnly(missing) == DictOf(<< missing[1] >>)

\* Line 53: the Tags argument of tag_resources.
TagsArgument(missing) == DictOf(missing)

\* Lines 71-73 and 33-59: check_and_add_tags(tag_client, resource_arn).
CheckAndAddTags ==
    /\ pc = "resource"
    /\ ri <= Len(resources)
    /\ LET arn      == resources[ri].ResourceARN
           existing == ExistingTags(TagResponse(arn))
           missing  == MissingTags(existing)
           call     == [arn |-> arn, read |-> "ok", before |-> tags[arn],
                        writes |-> << >>, result |-> "none"]
       IN  /\ processed' = Append(processed, arn)
           /\ \/ \* get_resources raises
                 /\ last' = [call EXCEPT !.read = "error"]
                 /\ ExceptInCheckAndAddTags
                 /\ UNCHANGED << tags, okWrites >>
              \/ \* nothing is missing: no write
                 /\ missing = << >>
                 /\ last' = call
                 /\ ReturnToResourceLoop
                 /\ UNCHANGED << tags, okWrites, fails >>
              \/ \* tag_resources is called and applied
                 /\ missing # << >>
                 /\ last' = [call EXCEPT
                                !.writes = << TagsArgument(missing) >>,
                                !.result = "applied"]
                 /\ tags' = [tags EXCEPT
                                ![arn] = ApplyTags(@, TagsArgument(missing))]
                 /\ okWrites' = [okWrites EXCEPT ![arn] = @ + 1]
                 /\ ReturnToResourceLoop
                 /\ UNCHANGED fails
              \/ \* tag_resources answers with the resource in
                 \* FailedResourcesMap: nothing raised, nothing applied
                 /\ missing # << >>
                 /\ last' = [call EXCEPT
                                !.writes = << TagsArgument(missing) >>,
                                !.result = "rejected"]
                 /\ ReturnToResourceLoop
                 /\ UNCHANGED << tags, okWrites, fails >>
              \/ \* tag_resources raises
                 /\ missing # << >>
                 /\ last' = [call EXCEPT
                                !.writes = << TagsArgument(missing) >>,
                                !.result = "raised"]
                 /\ ExceptInCheckAndAddTags
                 /\ UNCHANGED << tags, okWrites >>
    /\ UNCHANGED << profiles, resources, tags0, entered, listedSvcs >>

\* ---------------------------------------------------------- the program
Next ==
    \/ GetAwsProfiles
    \/ MainNoProfiles
    \/ ProcessAwsProfile
    \/ MainEnd
    \/ GetResourcesWithTags
    \/ CheckAndAddTags
    \/ EndResources
    \/ EndServices

Spec == Init /\ [][Next]_vars

\* Tag maps that decide the path through check_and_add_tags: both keys
\* missing, one key missing, nothing missing.
PathTagMaps ==
    { EmptyMap,
      [Environment |-> "Production"],
      [Environment |-> "Production", Owner |-> "CloudEng"] }

\* The interpreter runs the script to its end: every step that can be
\* taken is taken, and every API call answers or raises.  The run is
\* followed from the tag maps of PathTagMaps.
FairSpec == InitWith(PathTagMaps) /\ [][Next]_vars /\ WF_vars(Next)

\* ------------------------------------------------------------ properties
RequiredKeys == DOMAIN REQUIRED_TAGS

ArnsOf(list) == [i \in 1 .. Len(list) |-> list[i].ResourceARN]

\* C1: a call whose tag read succeeded on a resource that misses at least
\* one required key issues exactly one tag_resources write, and that write
\* names exactly the missing keys, each with its REQUIRED_TAGS value.
C1_WritesExactlyMissing ==
    (last.read = "ok" /\ RequiredKeys \ DOMAIN last.before # {}) =>
        /\ Len(last.writes) = 1
        /\ DOMAIN last.writes[1] = RequiredKeys \ DOMAIN last.before
        /\ \A k \in DOMAIN last.writes[1] :
              last.writes[1][k] = REQUIRED_TAGS[k]

\* The spec's example: {Environment: Production} leads to {Owner: CloudEng}.
C1_Witness ==
    /\ last.read = "ok"
    /\ last.before = [Environment |-> "Production"]
    /\ last.writes = << [Owner |-> "CloudEng"] >>

\* C2: a call on a resource that already carries every required key,
\* whatever the values, issues no tag_resources write.
C2_NoWriteWhenAllKeysPresent ==
    (last.read = "ok" /\ RequiredKeys \subseteq DOMAIN last.before) =>
        (last.writes = << >> /\ last.result = "none")

C2_Witness ==
    /\ last.read = "ok"
    /\ last.before = [Environment |-> "Legacy", Owner |-> "CloudEng"]
    /\ last.writes = << >>

\* C3: every key a resource carried before the run keeps its value, also a
\* required key with another value; no write names a key the read returned.
C3_AdditiveOnly ==
    /\ \A r \in Resources : \A k \in DOMAIN tags0[r] :
          k \in DOMAIN tags[r] /\ tags[r][k] = tags0[r][k]
    /\ \A i \in DOMAIN last.writes :
          DOMAIN last.writes[i] \cap DOMAIN last.before = {}

C3_Witness ==
    /\ pc = "done"
    /\ \E r \in Resources :
          /\ okWrites[r] >= 1
          /\ "Environment" \in DOMAIN tags0[r]
          /\ tags0[r]["Environment"] = "Legacy"
          /\ "Name" \in DOMAIN tags0[r]
          /\ tags[r]["Name"] = "Legacy"
          /\ tags[r]["Environment"] = "Legacy"
          /\ tags[r]["Owner"] = "CloudEng"

\* C4: an error of the tag read or the tag write of one resource stays
\* inside check_and_add_tags: when the loop over a listing is left, every
\* resource of the listing has been handed to check_and_add_tags, in order.
C4_LaterResourcesReconciled ==
    (pc # "resource") => (processed = ArnsOf(resources))

C4_Witness ==
    /\ pc = "resource"
    /\ ri = 2
    /\ last.arn = resources[1].ResourceARN
    /\ last.read = "error"
    /\ processed = << resources[1].ResourceARN >>
    /\ ENABLED CheckAndAddTags

\* C5: whatever a profile raised, process_aws_profile is entered for every
\* profile of the list: at the end of the run all of them were entered.
C5_LaterProfilesEntered ==
    (pc = "done") => (entered = [i \in 1 .. Len(profiles) |-> profiles[i]])

C5_Witness ==
    /\ pc = "main"
    /\ pi = 2
    /\ profRaised
    /\ entered = << profiles[1] >>
    /\ ENABLED ProcessAwsProfile

\* C6: a failed listing yields the empty list, and the pass over the
\* services goes on: when a profile pass is left, every service was listed.
C6_LaterServicesListed ==
    /\ (pc \in {"main", "done"}) => (listedSvcs \in {<< >>, Services})
    /\ listRaised => (resources = << >>)

C6_Witness ==
    /\ pc = "service"
    /\ si = 2
    /\ listRaised
    /\ resources = << >>
    /\ listedSvcs = << Services[1] >>
    /\ ENABLED GetResourcesWithTags

\* C7: at the end of the run, a resource whose tag read and tag write both
\* succeeded carries every key of REQUIRED_TAGS.
C7_SupersetAtEnd ==
    (pc = "done") =>
        /\ \A r \in Resources :
              okWrites[r] >= 1 => RequiredKeys \subseteq DOMAIN tags[r]
        /\ (last.read = "ok" /\ last.result \in {"none", "applied"}) =>
              RequiredKeys \subseteq DOMAIN tags[last.arn]

C7_Witness ==
    /\ pc = "done"
    /\ \E r \in Resources :
          /\ okWrites[r] >= 1
          /\ DOMAIN tags0[r] \cap RequiredKeys = {}
          /\ RequiredKeys \subseteq DOMAIN tags[r]

\* C8: the listing made for service S holds only resources that belong to
\* S, so that a resource is reconciled under its own service only.
C8_ListingOnlyOwnService ==
    (pc = "resource") =>
        \A i \in DOMAIN resources :
            ServiceOf(resources[i].ResourceARN) = Services[si]

\* C9: whatever failed, the run ends normally (exit status 0) after
\* process_aws_profile has been attempted for every profile.
C9_TerminatesNormally ==
    <>(pc = "done" /\ exitStatus = 0 /\ Len(entered) = Len(profiles))

\* A normal end after a profile, a listing and a resource have failed.
C9_Witness ==
    /\ pc = "done"
    /\ exitStatus = 0
    /\ profRaised
    /\ listRaised
    /\ last.result = "raised"
    /\ Len(entered) = MaxProfiles

\* C10: a resource receives at most one applied write per run: once a
\* write was applied, no later call on the resource issues a write.
C10_AtMostOneAppliedWrite ==
    \A r \in Resources :
        /\ okWrites[r] <= 1
        /\ (last.arn = r /\ okWrites[r] >= 1 /\ last.writes # << >>) =>
              last.result = "applied"

C10_Witness ==
    \E r \in Resources :
        /\ okWrites[r] = 1
        /\ last.arn = r
        /\ last.read = "ok"
        /\ last.writes = << >>
        /\ DOMAIN last.before # DOMAIN tags0[r]

====
